---------------------------- MODULE Spec2Model ----------------------------
(***************************************************************************)
(* Model of the three trading scripts of the repository:                   *)
(*   src/trader.py                        sweep trader, carry state in a   *)
(*                                        jsonpickle token                 *)
(*   src/prosperity-local/trader.py       fixed-size quoting + Logger      *)
(*   src/prosperity-local/logs/trader2.py KELP mean reversion, RESIN       *)
(*                                        passive banding + Logger         *)
(* One action per Trader.run call (one tick).  Text is a sequence of       *)
(* one-character strings, so that slicing, truncation and JSON escaping    *)
(* act on characters.  Prices that Python holds as floats (mid prices,     *)
(* averages) are exact rationals [n, d] here; every comparison the code    *)
(* makes on them is decided by cross-multiplication.                       *)
(***************************************************************************)
EXTENDS Integers, Sequences, FiniteSets, TLC

VARIABLES
    variant,                 \* which script this process runs
    state,                   \* the TradingState of the last Trader.run call
    outcome,                 \* "none" | "ok" (run returned) | "error" (run raised)
    result,                  \* product -> list of Order, as returned by the last run
    trader_data,             \* the traderData string/token returned by the last run
    logs,                    \* Logger.logs
    flushed,                 \* the record the last Logger.flush printed
    kelp_mid_prices,         \* trader2.Trader.kelp_mid_prices (deque, maxlen 50)
    last_resin_order_prices, \* trader2.Trader.last_resin_order_prices
    fair_price,              \* src/trader.py: the fair_price of each product in the
                             \* last run (the value line 52 prints)
    ledger,                  \* history: per product, sums over the orders emitted
                             \* since the carry state last started fresh
    chain,                   \* history: ticks since the carry state last started fresh
    seen,                    \* history: per product, the market-trade prices the
                             \* runs read since the carry state last started fresh
    call                     \* the last direct Logger.truncate call

vars == <<variant, state, outcome, result, trader_data, logs, flushed,
          kelp_mid_prices, last_resin_order_prices, fair_price, ledger, chain,
          seen, call>>

-----------------------------------------------------------------------------
(* Bounds of the model *)

\* longest text handed to a direct Logger.truncate call
MaxStrLen == 4
\* Logger.truncate is called with budgets in -MaxBudget .. MaxBudget
MaxBudget == 5
\* most KELP mid prices collected by trader2.py (it trades KELP from 10 on)
MaxKelpHistory == 10
\* most ticks of src/trader.py in a row that hand the returned token back
MaxChain == 3

-----------------------------------------------------------------------------
(* Python helpers *)

Min(a, b) == IF a <= b THEN a ELSE b
Max(a, b) == IF a >= b THEN a ELSE b
Abs(a) == IF a < 0 THEN -a ELSE a

\* value[:k] for a Python str/list: a negative k counts from the end
PySlice(value, k) ==
    IF k >= 0 THEN SubSeq(value, 1, Min(k, Len(value)))
              ELSE SubSeq(value, 1, Max(0, Len(value) + k))

RECURSIVE SeqSum(_)
SeqSum(s) == IF s = <<>> THEN 0 ELSE Head(s) + SeqSum(Tail(s))

\* sorted(S) for a set of integers
RECURSIVE SortedSeq(_)
SortedSeq(S) ==
    IF S = {} THEN <<>>
    ELSE LET m == CHOOSE x \in S : \A y \in S : x <= y
         IN  <<m>> \o SortedSeq(S \ {m})

Reverse(s) == [i \in 1..Len(s) |-> s[Len(s) + 1 - i]]

SetMax(S) == CHOOSE x \in S : \A y \in S : y <= x
SetMin(S) == CHOOSE x \in S : \A y \in S : x <= y

Digits == <<"0", "1", "2", "3", "4", "5", "6", "7", "8", "9">>

\* str(n) for a non-negative int
RECURSIVE NatStr(_)
NatStr(n) == IF n < 10 THEN <<Digits[n + 1]>>
             ELSE NatStr(n \div 10) \o <<Digits[(n % 10) + 1]>>

\* str(n) for an int
IntStr(n) == IF n < 0 THEN <<"-">> \o NatStr(-n) ELSE NatStr(n)

\* f"{x:.2f}" for x = n2 / 2 (a mid price is half of an integer)
HalfStr2f(n2) ==
    (IF n2 < 0 THEN <<"-">> ELSE <<>>)
        \o NatStr(Abs(n2) \div 2)
        \o (IF Abs(n2) % 2 = 0 THEN <<".", "0", "0">> ELSE <<".", "5", "0">>)

-----------------------------------------------------------------------------
(* Data model: symbols, books, snapshots *)

KELP == "KELP"
RESIN == "RAINFOREST_RESIN"
SQUID == "SQUID_INK"

\* the characters of a symbol
SymbolText(symbol) ==
    CASE symbol = KELP  -> <<"K", "E", "L", "P">>
      [] symbol = RESIN -> <<"R", "A", "I", "N", "F", "O", "R", "E", "S", "T",
                             "_", "R", "E", "S", "I", "N">>
      [] symbol = SQUID -> <<"S", "Q", "U", "I", "D", "_", "I", "N", "K">>

\* a dict with no entries
EmptyDict == [k \in {} |-> 0]

\* OrderDepth: buy_orders maps price to a positive quantity, sell_orders maps
\* price to a negative quantity
Depth(buys, sells) == [buy_orders |-> buys, sell_orders |-> sells]

\* Order(symbol, price, quantity)
Order(symbol, price, quantity) ==
    [symbol |-> symbol, price |-> price, quantity |-> quantity]

\* state.position.get(symbol, 0)
PositionGet(position, symbol) ==
    IF symbol \in DOMAIN position THEN position[symbol] ELSE 0

\* the symbols of state.order_depths, a list of [symbol, depth] in dict order
Symbols(order_depths) == {order_depths[i].symbol : i \in 1..Len(order_depths)}

RECURSIVE Concat(_)
Concat(ss) == IF ss = <<>> THEN <<>> ELSE Head(ss) \o Concat(Tail(ss))

\* the sum of a dict's values
RECURSIVE SumFn(_)
SumFn(f) ==
    IF DOMAIN f = {} THEN 0
    ELSE LET x == CHOOSE x \in DOMAIN f : TRUE
         IN  f[x] + SumFn([y \in DOMAIN f \ {x} |-> f[y]])

-----------------------------------------------------------------------------
(* Logger (the same class in prosperity-local/trader.py and logs/trader2.py) *)

max_log_length == 3750

Ellipsis == <<".", ".", ".">>

truncate(value, max_length) ==
    IF Len(value) <= max_length THEN value
    ELSE PySlice(value, max_length - 3) \o Ellipsis


\* Logger.print(text): one object, default sep and end
LoggerPrint(buffer, text) == buffer \o text \o <<"\n">>

\* the characters json.dumps writes as a backslash and a letter
Escaped == {"\"", "\\", "\n", "\r", "\t"}

\* len(json.dumps(s)) - 2 for a str s of printable ASCII and the characters
\* above: what s adds to a record that already holds "" in its place
JsonTextLen(s) == Len(s) + Cardinality({i \in 1..Len(s) : s[i] \in Escaped})

\* len(json.dumps(d, separators=(",", ":"))) for a dict of int keys and int
\* values: the keys are written as strings
JsonIntDictLen(d) ==
    2 + SumFn([k \in DOMAIN d |-> 2 + Len(IntStr(k)) + 1 + Len(IntStr(d[k]))])
      + Max(0, Cardinality(DOMAIN d) - 1)

\* len(to_json(state.position))
JsonPositionLen(position) ==
    2 + SumFn([p \in DOMAIN position |->
                  2 + Len(SymbolText(p)) + 1 + Len(IntStr(position[p]))])
      + Max(0, Cardinality(DOMAIN position) - 1)

\* len(to_json(compress_order_depths(order_depths)))
compress_order_depths(order_depths) ==
    2 + SumFn([i \in 1..Len(order_depths) |->
                  2 + Len(SymbolText(order_depths[i].symbol)) + 1
                    + 1 + JsonIntDictLen(order_depths[i].depth.buy_orders)
                    + 1 + JsonIntDictLen(order_depths[i].depth.sell_orders) + 1])
      + Max(0, Len(order_depths) - 1)

\* the orders of a result in one list: [o for os in orders.values() for o in os]
AllOrders(orders, symbols) ==
    Concat([i \in 1..Len(symbols) |->
              IF symbols[i] \in DOMAIN orders THEN orders[symbols[i]] ELSE <<>>])

\* len(to_json(compress_orders(orders)))
compress_orders(orders, symbols) ==
    LET os == AllOrders(orders, symbols)
    IN  2 + SumFn([i \in 1..Len(os) |->
                     1 + 2 + Len(SymbolText(os[i].symbol)) + 1
                       + Len(IntStr(os[i].price)) + 1
                       + Len(IntStr(os[i].quantity)) + 1])
          + Max(0, Len(os) - 1)

\* len(to_json(compress_state(state, ""))): state.padding is the encoded
\* length of the listings, own_trades, market_trades and observations
\* entries together
compress_state(st) ==
    2 + 7 + Len(IntStr(st.timestamp)) + 2 + st.padding
      + compress_order_depths(st.order_depths)
      + JsonPositionLen(st.position)

\* Logger.flush: the record it prints.  conversions is always 0 (one character)
flush(buffer, st, orders, symbols, token) ==
    LET base_length == 2 + 4 + compress_state(st) + compress_orders(orders, symbols)
                         + 1 + 2 + 2
        max_item_length == (max_log_length - base_length) \div 3
    IN  [base_length     |-> base_length,
         max_item_length |-> max_item_length,
         traderData      |-> truncate(st.traderData, max_item_length),
         trader_data     |-> truncate(token, max_item_length),
         logs            |-> truncate(buffer, max_item_length)]

LogsKept(buffer) == buffer

\* Logger.logs after Logger.flush (its last statement)
LogsAfterFlush(buffer) == <<>>

\* the length of the line Logger.flush prints
RecordLen(rec) ==
    rec.base_length + JsonTextLen(rec.traderData) + JsonTextLen(rec.trader_data)
                    + JsonTextLen(rec.logs)

-----------------------------------------------------------------------------
(* Inputs: the books, positions and snapshots the environment may send *)

\* state.order_depths with the same book for every listed symbol
SameBook(symbols, book) ==
    [i \in 1..Len(symbols) |-> [symbol |-> symbols[i], depth |-> book]]

\* state.position, the same for every listed symbol
SamePosition(symbols, pos) ==
    [p \in {symbols[i] : i \in 1..Len(symbols)} |-> pos]

\* a TradingState
Snapshot(ts, token, symbols, book, pos, trades, pad) ==
    [timestamp     |-> ts,
     traderData    |-> token,
     order_depths  |-> SameBook(symbols, book),
     market_trades |-> trades,
     position      |-> SamePosition(symbols, pos),
     padding       |-> pad]

\* two-sided books by spread, around 100 and around 110
Book1   == Depth((100 :> 5), (101 :> -5))
Book2   == Depth((99 :> 5), (101 :> -5))
Book4   == Depth((98 :> 5), (102 :> -5))
Book6   == Depth((97 :> 5), (103 :> -5))
Book10  == Depth((95 :> 5), (105 :> -5))
BookHi4 == Depth((108 :> 5), (112 :> -5))
\* books that lack a side
BookNoAsk == Depth((99 :> 5), EmptyDict)
BookNoBid == Depth(EmptyDict, (101 :> -5))
BookEmpty == Depth(EmptyDict, EmptyDict)

\* positions within the limit of 20, at its edges and around +-15
Positions == {-20, -19, -16, 0, 16, 19, 20}

\* the least padding: three times len("[]"), and len("[{},{}]")
MinPadding == 3 * 2 + 7
\* paddings that leave the three text fields a budget of a few characters,
\* of none, and a negative one
Paddings == {MinPadding, 3560, 3640, 3650, 3660}

\* incoming traderData texts for the scripts that only echo it
EchoTexts == {<<>>, <<"a", "b", "c", "d", "e", "f">>, <<"a", "\"", "\\", "\n">>}

NoTrades == [p \in {} |-> <<>>]

-----------------------------------------------------------------------------
(* src/prosperity-local/trader.py: fixed-size quoting *)

FIXED_POSITION_LIMIT == 20

TwoSided(depth) ==
    DOMAIN depth.buy_orders # {} /\ DOMAIN depth.sell_orders # {}

\* f"{symbol} | Fair={fair_price:.2f} Spread={spread:.2f} Pos={position}"
StatusLine(symbol, best_bid, best_ask, position) ==
    SymbolText(symbol)
        \o <<" ", "|", " ", "F", "a", "i", "r", "=">> \o HalfStr2f(best_bid + best_ask)
        \o <<" ", "S", "p", "r", "e", "a", "d", "=">> \o IntStr(best_ask - best_bid)
        \o <<".", "0", "0">>
        \o <<" ", "P", "o", "s", "=">> \o IntStr(position)

\* the body of the loop over state.order_depths, for one symbol
FixedOrders(symbol, depth, position) ==
    IF ~TwoSided(depth) THEN <<>>
    ELSE LET best_bid == SetMax(DOMAIN depth.buy_orders)
             best_ask == SetMin(DOMAIN depth.sell_orders)
             spread   == best_ask - best_bid
         IN  IF spread > 1
             THEN (IF position < FIXED_POSITION_LIMIT
                   THEN <<Order(symbol, best_bid + 1,
                                Min(3, FIXED_POSITION_LIMIT - position))>>
                   ELSE <<>>)
               \o (IF position > -FIXED_POSITION_LIMIT
                   THEN <<Order(symbol, best_ask - 1,
                                -Min(3, FIXED_POSITION_LIMIT + position))>>
                   ELSE <<>>)
             ELSE <<>>

\* what the loop appends to Logger.logs for one symbol
FixedLog(symbol, depth, position) ==
    IF ~TwoSided(depth) THEN <<>>
    ELSE LoggerPrint(<<>>, StatusLine(symbol, SetMax(DOMAIN depth.buy_orders),
                                      SetMin(DOMAIN depth.sell_orders), position))

\* the result dict: a symbol is entered only "if orders"
NonEmptyResult(ods, orders) ==
    LET kept == {i \in 1..Len(ods) : orders[i] # <<>>}
    IN  [sym \in {ods[i].symbol : i \in kept} |->
            orders[CHOOSE i \in kept : ods[i].symbol = sym]]

SymbolSeq(ods) == [i \in 1..Len(ods) |-> ods[i].symbol]

\* what Trader.run of prosperity-local/trader.py returns and prints, from
\* Logger.logs
FixedOutput(snap, buffer0) ==
    LET ods    == snap.order_depths
        orders == [i \in 1..Len(ods) |->
                     FixedOrders(ods[i].symbol, ods[i].depth,
                                 PositionGet(snap.position, ods[i].symbol))]
        buffer == buffer0 \o Concat([i \in 1..Len(ods) |->
                     FixedLog(ods[i].symbol, ods[i].depth,
                              PositionGet(snap.position, ods[i].symbol))])
        res    == NonEmptyResult(ods, orders)
    IN  [result |-> res, flushed |-> flush(buffer, snap, res, SymbolSeq(ods), <<>>),
         logs |-> LogsAfterFlush(buffer)]

\* Trader.run of prosperity-local/trader.py
FixedRun(snap) ==
    \E out \in {FixedOutput(snap, logs)} :
        /\ variant = "fixed"
        /\ state' = snap
        /\ result' = out.result
        /\ trader_data' = <<>>
        /\ flushed' = out.flushed
        /\ logs' = out.logs
        /\ outcome' = "ok"
        /\ UNCHANGED <<variant, kelp_mid_prices, last_resin_order_prices,
                       fair_price, ledger, chain, seen, call>>

FixedSymbolLists == {<<KELP>>, <<KELP, RESIN>>, <<SQUID>>}

FixedSnapshots ==
    {Snapshot(0, <<>>, syms, book, pos, NoTrades, MinPadding) :
        syms \in FixedSymbolLists,
        book \in {Book1, Book2, Book4, Book10, BookNoAsk, BookEmpty},
        pos \in Positions}
    \cup
    {Snapshot(ts, text, <<KELP>>, book, 0, NoTrades, pad) :
        ts \in {0, 960000}, text \in EchoTexts, book \in {Book2, BookEmpty},
        pad \in Paddings}

-----------------------------------------------------------------------------
(* src/prosperity-local/logs/trader2.py: KELP mean reversion, RESIN bands *)

POSITION_LIMIT == 20
\* state.timestamp > 950_000 switches both products to unwinding
HORIZON == 950000
\* deque(maxlen=50)
KELP_WINDOW == 50

DequeAppendNoEvict(items, x, maxlen) == Append(items, x)

\* deque.append on a deque of the given maxlen
DequeAppend(items, x, maxlen) ==
    IF maxlen = 0 THEN items
    ELSE IF Len(items) < maxlen THEN Append(items, x)
    ELSE Append(Tail(items), x)

\* the unwind branch, the same for both products
UnwindOrders(symbol, best_bid, best_ask, pos) ==
    IF pos > 0 THEN <<Order(symbol, best_ask, -pos)>>
    ELSE IF pos < 0 THEN <<Order(symbol, best_bid, -pos)>>
    ELSE <<>>

\* the KELP branch; mids is kelp_mid_prices after the append and holds
\* twice each mid price, mid2 is twice the current mid price.
\* delta < -4 is mid - sum/len < -4, that is mid2*len - sum2 < -8*len
KelpOrders(symbol, best_bid, best_ask, pos, timestamp, mids) ==
    LET mid2  == best_bid + best_ask
        n     == Len(mids)
        delta == mid2 * n - SeqSum(mids)
    IN  IF timestamp > HORIZON THEN UnwindOrders(symbol, best_bid, best_ask, pos)
        ELSE IF n >= 10
        THEN (IF delta < -8 * n /\ pos < POSITION_LIMIT
              THEN <<Order(symbol, best_bid + 1, Min(5, POSITION_LIMIT - pos))>>
              ELSE IF delta > 8 * n /\ pos > -POSITION_LIMIT
              THEN <<Order(symbol, best_ask - 1, -Min(5, POSITION_LIMIT + pos))>>
              ELSE <<>>)
          \o (IF pos > 15 THEN <<Order(symbol, best_ask - 3, -5)>>
              ELSE IF pos < -15 THEN <<Order(symbol, best_bid + 3, 5)>>
              ELSE <<>>)
        ELSE <<>>

BandTierNarrow(spread) ==
    [buy_levels |-> <<9998>>, sell_levels |-> <<10002>>, size |-> 3]

\* the tier chosen by the spread
BandTier(spread) ==
    IF spread >= 10
    THEN [buy_levels |-> <<9995, 9996>>, sell_levels |-> <<10004, 10005>>, size |-> 8]
    ELSE IF spread >= 6
    THEN [buy_levels |-> <<9996, 9997>>, sell_levels |-> <<10003, 10004>>, size |-> 5]
    ELSE [buy_levels |-> <<9998>>, sell_levels |-> <<10002>>, size |-> 3]

\* "for price in buy_levels": acc holds orders, used (last_resin_order_prices)
\* and the running pos
RECURSIVE BandBuys(_, _, _, _)
BandBuys(symbol, levels, size, acc) ==
    IF levels = <<>> THEN acc
    ELSE LET price == Head(levels)
             qty   == Min(size, POSITION_LIMIT - acc.pos)
         IN  IF acc.pos < POSITION_LIMIT /\ price \notin acc.used
             THEN BandBuys(symbol, Tail(levels), size,
                           [orders |-> Append(acc.orders, Order(symbol, price, qty)),
                            used   |-> acc.used \cup {price},
                            pos    |-> acc.pos + qty])
             ELSE BandBuys(symbol, Tail(levels), size, acc)

\* "for price in sell_levels"
RECURSIVE BandSells(_, _, _, _)
BandSells(symbol, levels, size, acc) ==
    IF levels = <<>> THEN acc
    ELSE LET price == Head(levels)
             qty   == Min(size, POSITION_LIMIT + acc.pos)
         IN  IF acc.pos > -POSITION_LIMIT /\ price \notin acc.used
             THEN BandSells(symbol, Tail(levels), size,
                            [orders |-> Append(acc.orders, Order(symbol, price, -qty)),
                             used   |-> acc.used \cup {price},
                             pos    |-> acc.pos - qty])
             ELSE BandSells(symbol, Tail(levels), size, acc)

\* the RAINFOREST_RESIN branch: the orders and last_resin_order_prices after it
ResinBranch(symbol, best_bid, best_ask, pos, timestamp, used) ==
    IF timestamp > HORIZON
    THEN [orders |-> UnwindOrders(symbol, best_bid, best_ask, pos),
          used |-> used, pos |-> pos]
    ELSE LET tier == BandTier(best_ask - best_bid)
         IN  BandSells(symbol, tier.sell_levels, tier.size,
                 BandBuys(symbol, tier.buy_levels, tier.size,
                          [orders |-> <<>>, used |-> used, pos |-> pos]))

\* whether the loop reaches the KELP branch for this snapshot
AppendsKelp(snap) ==
    \E i \in 1..Len(snap.order_depths) :
        snap.order_depths[i].symbol = KELP /\ TwoSided(snap.order_depths[i].depth)

\* the body of the loop over state.order_depths, for one symbol; mids is
\* kelp_mid_prices after this tick's append
BandOrders(symbol, depth, pos, timestamp, mids) ==
    IF ~TwoSided(depth) THEN <<>>
    ELSE LET best_bid == SetMax(DOMAIN depth.buy_orders)
             best_ask == SetMin(DOMAIN depth.sell_orders)
         IN  IF symbol = KELP
             THEN KelpOrders(symbol, best_bid, best_ask, pos, timestamp, mids)
             ELSE IF symbol = RESIN
             THEN ResinBranch(symbol, best_bid, best_ask, pos, timestamp, {}).orders
             ELSE <<>>

\* what Trader.run of trader2.py returns and leaves behind, from the
\* instance's kelp_mid_prices and Logger.logs
BandOutput(snap, mids0, buffer0) ==
    LET ods    == snap.order_depths
        kelp   == {i \in 1..Len(ods) : ods[i].symbol = KELP /\ TwoSided(ods[i].depth)}
        resin  == {i \in 1..Len(ods) : ods[i].symbol = RESIN /\ TwoSided(ods[i].depth)}
        mids   == IF kelp = {} THEN mids0
                  ELSE LET d == ods[CHOOSE i \in kelp : TRUE].depth
                       IN  DequeAppend(mids0, SetMax(DOMAIN d.buy_orders)
                                                + SetMin(DOMAIN d.sell_orders),
                                       KELP_WINDOW)
        orders == [i \in 1..Len(ods) |->
                     BandOrders(ods[i].symbol, ods[i].depth,
                                PositionGet(snap.position, ods[i].symbol),
                                snap.timestamp, mids)]
        used   == IF resin = {} THEN {}
                  ELSE LET d == ods[CHOOSE i \in resin : TRUE].depth
                       IN  ResinBranch(RESIN, SetMax(DOMAIN d.buy_orders),
                                       SetMin(DOMAIN d.sell_orders),
                                       PositionGet(snap.position, RESIN),
                                       snap.timestamp, {}).used
        buffer == buffer0 \o Concat([i \in 1..Len(ods) |->
                     FixedLog(ods[i].symbol, ods[i].depth,
                              PositionGet(snap.position, ods[i].symbol))])
        res    == NonEmptyResult(ods, orders)
    IN  [result |-> res, mids |-> mids, used |-> used,
         flushed |-> flush(buffer, snap, res, SymbolSeq(ods), <<>>),
         logs |-> LogsAfterFlush(buffer)]

\* Trader.run of prosperity-local/logs/trader2.py
BandRun(snap) ==
    \E out \in {BandOutput(snap, kelp_mid_prices, logs)} :
        /\ variant = "band"
        /\ state' = snap
        /\ result' = out.result
        /\ trader_data' = <<>>
        /\ kelp_mid_prices' = out.mids
        /\ last_resin_order_prices' = out.used
        /\ flushed' = out.flushed
        /\ logs' = out.logs
        /\ outcome' = "ok"
        /\ UNCHANGED <<variant, fair_price, ledger, chain, seen, call>>

\* KELP snapshots: the KELP mid price is 100 at timestamp 0, 110 at 100 and
\* 100 again from 200 on
KelpSnapshots ==
    {Snapshot(0, <<>>, <<KELP>>, Book4, pos, NoTrades, MinPadding) :
        pos \in {-16, 0, 16}}
    \cup
    {Snapshot(100, <<>>, <<KELP>>, BookHi4, pos, NoTrades, MinPadding) :
        pos \in {-20, -16, 0, 16, 20}}
    \cup
    {Snapshot(200, <<>>, <<KELP>>, Book4, pos, NoTrades, MinPadding) :
        pos \in {-20, -16, 0, 16, 20}}
    \cup
    {Snapshot(960000, <<>>, syms, Book4, pos, NoTrades, MinPadding) :
        syms \in {<<KELP>>, <<RESIN>>}, pos \in {-16, 0, 16}}

\* books at the edges of the tiers (spreads 5 and 9) and a wide one
Book5    == Depth((98 :> 5), (103 :> -5))
Book9    == Depth((95 :> 5), (104 :> -5))
BookWide == Depth((9990 :> 10), (10010 :> -10))

ResinSnapshots ==
    {Snapshot(0, <<>>, <<RESIN>>, book, pos, NoTrades, MinPadding) :
        book \in {Book2, Book6, Book10}, pos \in Positions}
    \cup
    {Snapshot(0, <<>>, <<RESIN>>, book, 0, NoTrades, MinPadding) :
        book \in {Book5, Book9, BookWide}}
    \cup
    {Snapshot(0, <<>>, syms, book, 0, NoTrades, MinPadding) :
        syms \in {<<KELP, RESIN>>, <<SQUID>>}, book \in {Book4, BookNoAsk}}

BandSnapshots ==
    KelpSnapshots \cup ResinSnapshots
    \cup
    {Snapshot(0, text, <<RESIN>>, Book2, 0, NoTrades, pad) :
        text \in EchoTexts, pad \in Paddings}

-----------------------------------------------------------------------------
(* src/trader.py: the sweep trader *)

HISTORY_LENGTH == 20
POSITION_LIMITS == (KELP :> 20) @@ (RESIN :> 20)

\* exact rationals n/d with d > 0, for the floats of the script
Rat(n, d) == [n |-> n, d |-> d]
RatLess(a, b) == a.n * b.d < b.n * a.d
RatEq(a, b) == a.n * b.d = b.n * a.d
RatAdd(a, b) == Rat(a.n * b.d + b.n * a.d, a.d * b.d)
RatSub(a, b) == Rat(a.n * b.d - b.n * a.d, a.d * b.d)
RatHalf(a) == Rat(a.n, 2 * a.d)

\* a traderData string: raw text, or the JSON text of a value (body)
TextToken(text) == [kind |-> "text", body |-> text]
JsonToken(value) == [kind |-> "json", body |-> value]

\* the fresh entry Trader.run gives a product it has no memory of
FreshMemory ==
    [recent_prices |-> [maxlen |-> HISTORY_LENGTH, items |-> <<>>],
     cash |-> 0, inventory |-> 0]

\* jsonpickle.encode(memory): a deque is written by its __reduce__, the call
\* deque((), maxlen) and its items; ints and dicts as JSON
encode(memory) ==
    JsonToken([type |-> "dict", items |->
        [p \in DOMAIN memory |->
            [recent_prices |->
                 [py_reduce |-> <<"collections.deque",
                                  <<<<>>, memory[p].recent_prices.maxlen>>,
                                  memory[p].recent_prices.items>>],
             cash      |-> memory[p].cash,
             inventory |-> memory[p].inventory]]])

\* deque(iterable, maxlen): the last maxlen items are kept
Deque(items, maxlen) ==
    [maxlen |-> maxlen,
     items  |-> IF Len(items) <= maxlen THEN items
                ELSE SubSeq(items, Len(items) - maxlen + 1, Len(items))]

\* jsonpickle.decode(traderData) of a non-empty string: raises on text
\* that is not JSON; a JSON list stays a list
decode(token) ==
    IF token.kind = "text" THEN [status |-> "raise"]
    ELSE IF token.body.type = "list" THEN [status |-> "list"]
    ELSE [status |-> "dict", memory |->
             [p \in DOMAIN token.body.items |->
                 LET e == token.body.items[p]
                 IN  [recent_prices |-> Deque(e.recent_prices.py_reduce[3],
                                              e.recent_prices.py_reduce[2][2]),
                      cash      |-> e.cash,
                      inventory |-> e.inventory]]]

\* lines 18-21: "if state.traderData" is false for the empty string only
LoadMemory(token) ==
    IF token = TextToken(<<>>) THEN [status |-> "dict", memory |-> [p \in {} |-> 0]]
    ELSE decode(token)

\* Python truth of "best_bid and best_ask": None and 0 are both false
BothTruthy(depth) ==
    /\ TwoSided(depth)
    /\ SetMax(DOMAIN depth.buy_orders) # 0
    /\ SetMin(DOMAIN depth.sell_orders) # 0

\* line 39
BookFair(product, depth) ==
    IF BothTruthy(depth)
    THEN Rat(SetMax(DOMAIN depth.buy_orders) + SetMin(DOMAIN depth.sell_orders), 2)
    ELSE Rat(IF product = KELP THEN 100 ELSE 10, 1)

\* lines 41-42: the market trades' prices go into the deque
RECURSIVE AppendAll(_, _, _)
AppendAll(items, prices, maxlen) ==
    IF prices = <<>> THEN items
    ELSE AppendAll(DequeAppend(items, Head(prices), maxlen), Tail(prices), maxlen)

\* state.market_trades.get(product, []), as the list of trade prices
TradesGet(market_trades, product) ==
    IF product \in DOMAIN market_trades THEN market_trades[product] ELSE <<>>

\* lines 44-49; trade_prices is the deque's content after the appends
FairPrice(product, depth, trade_prices) ==
    IF trade_prices # <<>>
    THEN RatHalf(RatAdd(BookFair(product, depth),
                        Rat(SeqSum(trade_prices), Len(trade_prices))))
    ELSE BookFair(product, depth)

\* lines 61-63: buy_threshold and sell_threshold are equal
Threshold(depth) ==
    LET spread == IF BothTruthy(depth)
                  THEN SetMin(DOMAIN depth.sell_orders) - SetMax(DOMAIN depth.buy_orders)
                  ELSE 100
    IN  IF spread < 5 THEN Rat(1, 2) ELSE Rat(1, 1)

BuyVolumeUnclamped(ask_volume, position_limit, current_position) == -ask_volume

\* line 67
BuyVolume(ask_volume, position_limit, current_position) ==
    Min(-ask_volume, position_limit - current_position)

SellVolumeUnclamped(bid_volume, position_limit, current_position) == bid_volume

\* line 77
SellVolume(bid_volume, position_limit, current_position) ==
    Min(bid_volume, current_position + position_limit)

BuyFillCashForgotten(acc, product, ask_price, volume) ==
    [orders    |-> Append(acc.orders, Order(product, ask_price, volume)),
     cash      |-> acc.cash,
     inventory |-> acc.inventory + volume,
     pos       |-> acc.pos + volume]

BuyFillPositionFromInventory(acc, product, ask_price, volume) ==
    [orders    |-> Append(acc.orders, Order(product, ask_price, volume)),
     cash      |-> acc.cash - ask_price * volume,
     inventory |-> acc.inventory + volume,
     pos       |-> acc.inventory + volume]

\* lines 69-72: acc holds orders, cash, inventory and current_position
BuyFill(acc, product, ask_price, volume) ==
    [orders    |-> Append(acc.orders, Order(product, ask_price, volume)),
     cash      |-> acc.cash - ask_price * volume,
     inventory |-> acc.inventory + volume,
     pos       |-> acc.pos + volume]

\* lines 79-82
SellFill(acc, product, bid_price, volume) ==
    [orders    |-> Append(acc.orders, Order(product, bid_price, -volume)),
     cash      |-> acc.cash + bid_price * volume,
     inventory |-> acc.inventory - volume,
     pos       |-> acc.pos - volume]

\* lines 65-73: bound is fair_price - buy_threshold
RECURSIVE SweepAsks(_, _, _, _, _, _)
SweepAsks(product, asks, prices, bound, limit, acc) ==
    IF prices = <<>> THEN acc
    ELSE LET ask_price == Head(prices)
             volume    == BuyVolume(asks[ask_price], limit, acc.pos)
         IN  IF RatLess(Rat(ask_price, 1), bound) /\ volume > 0
             THEN SweepAsks(product, asks, Tail(prices), bound, limit,
                            BuyFill(acc, product, ask_price, volume))
             ELSE SweepAsks(product, asks, Tail(prices), bound, limit, acc)

\* lines 75-83: bound is fair_price + sell_threshold
RECURSIVE SweepBids(_, _, _, _, _, _)
SweepBids(product, bids, prices, bound, limit, acc) ==
    IF prices = <<>> THEN acc
    ELSE LET bid_price == Head(prices)
             volume    == SellVolume(bids[bid_price], limit, acc.pos)
         IN  IF RatLess(bound, Rat(bid_price, 1)) /\ volume > 0
             THEN SweepBids(product, bids, Tail(prices), bound, limit,
                            SellFill(acc, product, bid_price, volume))
             ELSE SweepBids(product, bids, Tail(prices), bound, limit, acc)

\* the body of the loop over state.order_depths for a product that has a
\* position limit; entry is memory[product]
SweepProduct(product, depth, trades, position, entry) ==
    LET window == AppendAll(entry.recent_prices.items, trades,
                            entry.recent_prices.maxlen)
        fair   == FairPrice(product, depth, window)
        limit  == POSITION_LIMITS[product]
        acc    == SweepBids(product, depth.buy_orders,
                      Reverse(SortedSeq(DOMAIN depth.buy_orders)),
                      RatAdd(fair, Threshold(depth)), limit,
                      SweepAsks(product, depth.sell_orders,
                          SortedSeq(DOMAIN depth.sell_orders),
                          RatSub(fair, Threshold(depth)), limit,
                          [orders |-> <<>>, cash |-> entry.cash,
                           inventory |-> entry.inventory, pos |-> position]))
    IN  [orders |-> acc.orders,
         fair   |-> fair,
         entry  |-> [recent_prices |-> [maxlen |-> entry.recent_prices.maxlen,
                                        items  |-> window],
                     cash |-> acc.cash, inventory |-> acc.inventory]]

\* memory[product], created by lines 30-35 when absent
EntryOf(memory, product) ==
    IF product \in DOMAIN memory THEN memory[product] ELSE FreshMemory

\* what Trader.run of src/trader.py does with a snapshot: raises ("error"),
\* or returns result and the new token.  A product with no position limit
\* raises KeyError at line 57; a decoded list raises TypeError at line 31,
\* at the first product, and is returned as it came when there is none.
SweepOutput(snap) ==
    LET ods    == snap.order_depths
        loaded == LoadMemory(snap.traderData)
        raises == \/ loaded.status = "raise"
                  \/ loaded.status = "list" /\ Len(ods) > 0
                  \/ \E i \in 1..Len(ods) : ods[i].symbol \notin DOMAIN POSITION_LIMITS
    IN  IF raises THEN [outcome |-> "error"]
        ELSE IF loaded.status = "list"
        THEN [outcome |-> "ok", result |-> [p \in {} |-> <<>>],
              memory |-> [p \in {} |-> 0], fair |-> [p \in {} |-> Rat(0, 1)],
              trader_data |-> snap.traderData]
        ELSE LET done == [i \in 1..Len(ods) |->
                             SweepProduct(ods[i].symbol, ods[i].depth,
                                 TradesGet(snap.market_trades, ods[i].symbol),
                                 PositionGet(snap.position, ods[i].symbol),
                                 EntryOf(loaded.memory, ods[i].symbol))]
                 idx(p) == CHOOSE i \in 1..Len(ods) : ods[i].symbol = p
                 memory == [p \in DOMAIN loaded.memory \cup Symbols(ods) |->
                              IF p \in Symbols(ods) THEN done[idx(p)].entry
                              ELSE loaded.memory[p]]
             IN  [outcome |-> "ok",
                  result  |-> [p \in Symbols(ods) |-> done[idx(p)].orders],
                  fair    |-> [p \in Symbols(ods) |-> done[idx(p)].fair],
                  memory  |-> memory,
                  trader_data |-> encode(memory)]

\* per product, the sums over a result's orders: signed quantity, and minus
\* price times signed quantity
RECURSIVE OrderSums(_)
OrderSums(orders) ==
    IF orders = <<>> THEN [qty |-> 0, cash |-> 0]
    ELSE LET o    == Head(orders)
             rest == OrderSums(Tail(orders))
         IN  [qty  |-> rest.qty + o.quantity,
              cash |-> rest.cash - o.price * o.quantity]

LedgerAdd(old, res) ==
    [p \in DOMAIN old \cup DOMAIN res |->
        LET a == IF p \in DOMAIN old THEN old[p] ELSE [qty |-> 0, cash |-> 0]
            b == IF p \in DOMAIN res THEN OrderSums(res[p]) ELSE [qty |-> 0, cash |-> 0]
        IN  [qty |-> a.qty + b.qty, cash |-> a.cash + b.cash]]

\* per product, the prices of the market trades a run reads (lines 41-42),
\* added to those of the ticks before
SeenAdd(old, snap) ==
    [p \in DOMAIN old \cup Symbols(snap.order_depths) |->
        (IF p \in DOMAIN old THEN old[p] ELSE <<>>)
            \o (IF p \in Symbols(snap.order_depths)
                THEN TradesGet(snap.market_trades, p) ELSE <<>>)]

NoLedger == [p \in {} |-> [qty |-> 0, cash |-> 0]]
NoResult == [p \in {} |-> <<>>]
NoToken == TextToken(<<>>)
NoFair == [p \in {} |-> Rat(0, 1)]

\* Trader.run of src/trader.py.  The carry state starts fresh when the token
\* loads as an empty dict, and goes on when the token is the one the last
\* run returned.
SweepRun(snap) ==
    \E out \in {SweepOutput(snap)} :
    LET loaded == LoadMemory(snap.traderData)
        fresh  == loaded.status = "dict" /\ DOMAIN loaded.memory = {}
        echoed == chain >= 1 /\ outcome = "ok" /\ snap.traderData = trader_data
    IN  /\ variant = "sweep"
        /\ state' = snap
        /\ outcome' = out.outcome
        /\ IF out.outcome = "error"
           THEN /\ result' = NoResult
                /\ trader_data' = NoToken
                /\ fair_price' = NoFair
                /\ ledger' = NoLedger
                /\ seen' = NoTrades
                /\ chain' = 0
           ELSE /\ result' = out.result
                /\ trader_data' = out.trader_data
                /\ fair_price' = out.fair
                /\ ledger' = IF fresh THEN LedgerAdd(NoLedger, out.result)
                             ELSE IF echoed THEN LedgerAdd(ledger, out.result)
                             ELSE NoLedger
                /\ seen' = IF fresh THEN SeenAdd(NoTrades, snap)
                           ELSE IF echoed THEN SeenAdd(seen, snap)
                           ELSE NoTrades
                /\ chain' = IF fresh THEN 1 ELSE IF echoed THEN chain + 1 ELSE 0
        /\ UNCHANGED <<variant, logs, flushed, kelp_mid_prices,
                       last_resin_order_prices, call>>

\* books for the sweep: two levels a side; crossed; a best bid of 0
BookDeep    == Depth((99 :> 5) @@ (98 :> 30), (101 :> -5) @@ (102 :> -30))
BookCrossed == Depth((99 :> 5) @@ (103 :> 4), (97 :> -3) @@ (101 :> -5))
BookZero    == Depth((0 :> 5), (2 :> -5))

\* market trades of one tick that fill more than half of a price window
Burst == [i \in 1..(HISTORY_LENGTH \div 2 + 1) |-> 89 + i]

\* state.market_trades: the same trade prices for every listed symbol
SameTrades(symbols, prices) ==
    [p \in {symbols[i] : i \in 1..Len(symbols)} |-> prices]

\* a TradingState of a sweep tick
SweepSnapshot(ts, token, symbols, book, pos, prices) ==
    Snapshot(ts, token, symbols, book, pos, SameTrades(symbols, prices), MinPadding)

\* tokens of a first tick: the empty string, the token of an empty carry
\* state, text that is no JSON, JSON that is no dict
EmptyStateToken == JsonToken([type |-> "dict", items |-> [p \in {} |-> 0]])
MalformedToken  == TextToken(<<"x">>)
ListToken       == JsonToken([type |-> "list", items |-> <<>>])

\* the snapshots of a first tick, given their token
FirstSnapshots ==
    {SweepSnapshot(0, NoToken, <<KELP>>, book, pos, prices) :
        book \in {Book2, BookDeep, BookCrossed},
        pos \in {-20, -19, 0, 19, 20},
        prices \in {<<>>, <<120>>, <<80>>}}
    \cup
    {SweepSnapshot(0, NoToken, syms, book, 0, prices) :
        syms \in {<<KELP>>, <<RESIN>>},
        book \in {BookNoAsk, BookNoBid, BookEmpty, BookZero},
        prices \in {<<>>, <<120>>}}
    \cup
    {SweepSnapshot(0, token, syms, BookCrossed, 0, <<>>) :
        token \in {NoToken, EmptyStateToken, MalformedToken, ListToken},
        syms \in {<<>>, <<KELP>>, <<KELP, RESIN>>, <<KELP, SQUID>>,
                  <<SQUID, KELP>>}}
    \cup
    {SweepSnapshot(960000, NoToken, <<KELP>>, book, pos, <<>>) :
        book \in {Book2, BookCrossed}, pos \in {-19, 0, 19}}
    \cup
    {SweepSnapshot(0, NoToken, <<KELP>>, Book2, 0, Burst)}

\* the snapshots of a later tick, which carry the token the last run returned
LaterSnapshots(token) ==
    {SweepSnapshot(0, token, <<KELP>>, book, pos, prices) :
        book \in {Book2, BookCrossed}, pos \in {0, 19},
        prices \in {<<>>, <<120>>, <<80>>}}
    \cup
    {SweepSnapshot(960000, token, <<RESIN>>, BookCrossed, 0, <<120>>)}
    \cup
    {SweepSnapshot(0, token, <<KELP>>, Book2, 0, Burst)}

-----------------------------------------------------------------------------
(* The specification *)

\* before the first tick: no snapshot yet
NoState(token) ==
    [timestamp |-> 0, traderData |-> token, order_depths |-> <<>>,
     market_trades |-> NoTrades, position |-> [p \in {} |-> 0],
     padding |-> MinPadding]

NoRecord == [base_length |-> 0, max_item_length |-> 0, traderData |-> <<>>,
             trader_data |-> <<>>, logs |-> <<>>]

Init ==
    /\ variant \in {"sweep", "fixed", "band"}
    /\ state = NoState(IF variant = "sweep" THEN NoToken ELSE <<>>)
    /\ outcome = "none"
    /\ result = NoResult
    /\ trader_data = IF variant = "sweep" THEN NoToken ELSE <<>>
    /\ logs = <<>>
    /\ flushed = NoRecord
    /\ kelp_mid_prices = <<>>
    /\ last_resin_order_prices = {}
    /\ fair_price = NoFair
    /\ ledger = NoLedger
    /\ chain = 0
    /\ seen = NoTrades
    /\ call = [value |-> <<>>, max_length |-> 0, out |-> <<>>]

\* the first tick (and the tick after one that raised) gets any first token;
\* later ticks get the token the last run returned, MaxChain ticks at most
Sweep ==
    \/ /\ variant = "sweep" /\ chain = 0
       /\ \E snap \in FirstSnapshots :
              snap.timestamp >= state.timestamp /\ SweepRun(snap)
    \/ /\ variant = "sweep" /\ chain >= 1 /\ chain < MaxChain
       /\ \E snap \in LaterSnapshots(trader_data) :
              snap.timestamp >= state.timestamp /\ SweepRun(snap)

Fixed ==
    /\ variant = "fixed"
    /\ \E snap \in FixedSnapshots :
           snap.timestamp >= state.timestamp /\ FixedRun(snap)

\* timestamps never decrease from tick to tick; at most MaxKelpHistory mid
\* prices are collected
Band ==
    /\ variant = "band"
    /\ \E snap \in BandSnapshots :
           /\ snap.timestamp >= state.timestamp
           /\ AppendsKelp(snap) => Len(kelp_mid_prices) < MaxKelpHistory
           /\ BandRun(snap)

Next == Sweep \/ Fixed \/ Band

Spec == Init /\ [][Next]_vars

\* Logger.truncate called on its own, with any short text and small budget
Alphabet == {"a", "\n"}

TextsUpTo(n) == UNION {[1..k -> Alphabet] : k \in 0..n}

TruncateCall ==
    /\ variant = "truncate"
    /\ \E value \in TextsUpTo(MaxStrLen), max_length \in -MaxBudget..MaxBudget :
           call' = [value |-> value, max_length |-> max_length,
                    out |-> truncate(value, max_length)]
    /\ UNCHANGED <<variant, state, outcome, result, trader_data, logs, flushed,
                   kelp_mid_prices, last_resin_order_prices, fair_price,
                   ledger, chain, seen>>

InitTruncate ==
    /\ variant = "truncate"
    /\ state = NoState(<<>>)
    /\ outcome = "none"
    /\ result = NoResult
    /\ trader_data = <<>>
    /\ logs = <<>>
    /\ flushed = NoRecord
    /\ kelp_mid_prices = <<>>
    /\ last_resin_order_prices = {}
    /\ fair_price = NoFair
    /\ ledger = NoLedger
    /\ chain = 0
    /\ seen = NoTrades
    /\ call = [value |-> <<>>, max_length |-> 0, out |-> <<>>]

SpecTruncate == InitTruncate /\ [][TruncateCall]_vars

-----------------------------------------------------------------------------
(* Claims *)

\* the symbol and depth of every entry of the last snapshot's order_depths
Listed == {state.order_depths[i] : i \in 1..Len(state.order_depths)}

\* the sum of the signed quantities of the orders emitted for a product
EmittedQty(p) == IF p \in DOMAIN result THEN OrderSums(result[p]).qty ELSE 0

\* C1: in every tick of every script, for every product whose snapshot
\* position lies in [-20, 20], the snapshot position plus the signed
\* quantities of all the orders emitted for it lies in [-20, 20].
C1_PositionWithinLimit ==
    outcome # "none" =>
        \A e \in Listed :
            LET pos == PositionGet(state.position, e.symbol)
            IN  (pos >= -20 /\ pos <= 20) =>
                    /\ pos + EmittedQty(e.symbol) >= -20
                    /\ pos + EmittedQty(e.symbol) <= 20

\* a sweep tick that starts one below the limit and buys up to it
C1_Witness ==
    /\ variant = "sweep" /\ outcome = "ok"
    /\ \E p \in DOMAIN result :
           /\ result[p] # <<>>
           /\ PositionGet(state.position, p) = 19
           /\ PositionGet(state.position, p) + EmittedQty(p) = 20

\* C2: no two orders emitted for one product in one tick have the same price.
C2_DistinctPrices ==
    \A p \in DOMAIN result :
        \A i, j \in 1..Len(result[p]) :
            i # j => result[p][i].price # result[p][j].price

\* C3: the record Logger.flush prints is never longer than max_log_length.
C3_RecordWithinBudget ==
    (variant \in {"fixed", "band"} /\ outcome = "ok") =>
        RecordLen(flushed) <= max_log_length

\* C4: Logger.truncate returns value when len(value) <= budget, and
\* otherwise a proper prefix of value followed by "...".
C4_TruncatePrefixLaw ==
    IF Len(call.value) <= call.max_length
    THEN call.out = call.value
    ELSE \E k \in 0..(Len(call.value) - 1) :
             call.out = SubSeq(call.value, 1, k) \o Ellipsis

\* C5: past the horizon, in the sweep and the banding script, a product with a
\* nonzero position and a two-sided book gets exactly one order, of minus
\* the position (at the best ask when long, at the best bid when short),
\* and no order of any product increases |position|.
C5_HorizonUnwinds ==
    (variant \in {"sweep", "band"} /\ outcome # "none"
        /\ state.timestamp > HORIZON) =>
        \A e \in Listed :
            LET p   == e.symbol
                pos == PositionGet(state.position, p)
            IN  /\ (pos # 0 /\ TwoSided(e.depth)) =>
                       /\ p \in DOMAIN result
                       /\ result[p] =
                              <<Order(p, IF pos > 0
                                         THEN SetMin(DOMAIN e.depth.sell_orders)
                                         ELSE SetMax(DOMAIN e.depth.buy_orders),
                                      -pos)>>
                /\ p \in DOMAIN result =>
                       \A k \in 1..Len(result[p]) :
                           Abs(pos + result[p][k].quantity) <= Abs(pos)

\* C6: what a run returns and prints is what a freshly constructed trader
\* returns and prints for the same snapshot and token: nothing kept in the
\* instance or in the logger from earlier ticks has a part in it.
C6_SameInputSameOutput ==
    /\ (variant = "band" /\ outcome = "ok") =>
           /\ result = BandOutput(state, <<>>, <<>>).result
           /\ flushed = BandOutput(state, <<>>, <<>>).flushed
    /\ (variant = "fixed" /\ outcome = "ok") =>
           /\ result = FixedOutput(state, <<>>).result
           /\ flushed = FixedOutput(state, <<>>).flushed

\* C7: a sweep tick whose token is empty, or does not parse to a carry
\* state, does not fail, and returns the orders and the token of the same
\* tick given the token of an empty carry state.
C7_TokenNeverFails ==
    (/\ variant = "sweep" /\ outcome # "none"
     /\ state.traderData \in {NoToken, MalformedToken, ListToken}
     /\ \A e \in Listed : e.symbol \in DOMAIN POSITION_LIMITS) =>
        /\ outcome = "ok"
        /\ result = SweepOutput([state EXCEPT !.traderData = EmptyStateToken]).result
        /\ trader_data =
               SweepOutput([state EXCEPT !.traderData = EmptyStateToken]).trader_data

\* the price window of a product after the last sweep run
WindowAfter(p) == decode(trader_data).memory[p].recent_prices.items

\* C8: the sweep's fair price is (book_mid + trade_avg) / 2 when the book has
\* both sides and the window is not empty, book_mid when only the book has
\* both sides, trade_avg when only the window is not empty, and the
\* product's default otherwise.
C8_FairPriceCases ==
    (variant = "sweep" /\ outcome = "ok") =>
        \A e \in Listed :
            e.symbol \in DOMAIN fair_price =>
            LET p         == e.symbol
                window    == WindowAfter(p)
                book_mid  == Rat(SetMax(DOMAIN e.depth.buy_orders)
                                   + SetMin(DOMAIN e.depth.sell_orders), 2)
                trade_avg == Rat(SeqSum(window), Len(window))
            IN  RatEq(fair_price[p],
                      IF TwoSided(e.depth) /\ window # <<>>
                      THEN RatHalf(RatAdd(book_mid, trade_avg))
                      ELSE IF TwoSided(e.depth) THEN book_mid
                      ELSE IF window # <<>> THEN trade_avg
                      ELSE Rat(IF p = KELP THEN 100 ELSE 10, 1))

\* C9: a product that fails (it has a book but no position limit) does not
\* make the sweep tick fail: the orders of every other product are returned.
C9_FailureIsolated ==
    (/\ variant = "sweep" /\ outcome # "none"
     /\ LoadMemory(state.traderData).status = "dict") =>
        /\ outcome = "ok"
        /\ \A e \in Listed :
               e.symbol \in DOMAIN POSITION_LIMITS =>
                   /\ e.symbol \in DOMAIN result
                   /\ result[e.symbol] =
                          SweepProduct(e.symbol, e.depth,
                              TradesGet(state.market_trades, e.symbol),
                              PositionGet(state.position, e.symbol),
                              EntryOf(LoadMemory(state.traderData).memory,
                                      e.symbol)).orders

\* C10: while every sweep tick gets the token the tick before returned, the
\* carried inventory of each product is the sum of the signed quantities of
\* all the orders emitted for it since the fresh start, and the carried cash
\* is minus the sum of price times signed quantity over the same orders.
C10_CarryMatchesOrders ==
    (variant = "sweep" /\ outcome = "ok" /\ chain >= 1) =>
        LET memory == decode(trader_data).memory
        IN  /\ DOMAIN ledger = DOMAIN memory
            /\ \A p \in DOMAIN memory :
                   /\ memory[p].inventory = ledger[p].qty
                   /\ memory[p].cash = ledger[p].cash

\* a third tick in a row whose orders add to those of the ticks before
C10_Witness ==
    /\ variant = "sweep" /\ outcome = "ok" /\ chain >= 3
    /\ \E p \in DOMAIN result :
           /\ result[p] # <<>>
           /\ ledger[p].qty # 0
           /\ ledger[p].qty # OrderSums(result[p]).qty
           /\ ledger[p].cash # OrderSums(result[p]).cash

\* C11: in a sweep tick, a product whose price window is empty and whose
\* book has both sides and is not crossed (best_bid < best_ask) gets no
\* orders, whatever its position and the depth of its book.
C11_MidBookNoOrders ==
    (variant = "sweep" /\ outcome = "ok") =>
        \A e \in Listed :
            (/\ e.symbol \in DOMAIN result
             /\ TwoSided(e.depth)
             /\ SetMax(DOMAIN e.depth.buy_orders) < SetMin(DOMAIN e.depth.sell_orders)
             /\ WindowAfter(e.symbol) = <<>>) =>
                result[e.symbol] = <<>>

\* C12: the result of a run never maps a product to an empty list of orders.
C12_NoEmptyEntries ==
    \A p \in DOMAIN result : result[p] # <<>>

\* a carry-state token with the cash and the inventory of every product
\* replaced, and the price windows kept
WithCarry(token, cash, inventory) ==
    IF token.kind = "json" /\ token.body.type = "dict"
    THEN JsonToken([type |-> "dict", items |->
             [p \in DOMAIN token.body.items |->
                 [token.body.items[p] EXCEPT !.cash = cash,
                                             !.inventory = inventory]]])
    ELSE token

\* C13: the orders of a sweep tick do not depend on the carried cash or
\* inventory: the same snapshot with the same carried price windows and any
\* other carried cash and inventory gives the same orders.
C13_OrdersIgnoreCarry ==
    (/\ variant = "sweep" /\ outcome = "ok"
     /\ LoadMemory(state.traderData).status = "dict") =>
        \A carry \in {<<0, 0>>, <<-3000, 30>>, <<3000, -30>>} :
            SweepOutput([state EXCEPT !.traderData =
                            WithCarry(state.traderData, carry[1], carry[2])]).result
                = result

\* a tick that emits orders for a product whose incoming token carries a
\* nonzero inventory and a nonzero cash
C13_Witness ==
    /\ variant = "sweep" /\ outcome = "ok" /\ chain >= 2
    /\ \E p \in DOMAIN result :
           /\ result[p] # <<>>
           /\ p \in DOMAIN decode(state.traderData).memory
           /\ decode(state.traderData).memory[p].inventory # 0
           /\ decode(state.traderData).memory[p].cash # 0

\* C14: in the record Logger.flush prints, each of the three text fields is
\* at most max_item_length = (max_log_length - base_length) // 3 long, and
\* the echoed traderData is either the incoming text or its first
\* max_item_length - 3 characters followed by "...".
C14_FieldsWithinBudget ==
    (variant \in {"fixed", "band"} /\ outcome = "ok") =>
        LET budget == flushed.max_item_length
        IN  /\ Len(flushed.traderData) <= budget
            /\ Len(flushed.trader_data) <= budget
            /\ Len(flushed.logs) <= budget
            /\ flushed.traderData =
                   IF Len(state.traderData) <= budget THEN state.traderData
                   ELSE SubSeq(state.traderData, 1, budget - 3) \o Ellipsis

\* C15: the orders of a sweep tick for a product are its buys, at ask
\* levels in ascending price order, followed by its sells, at bid levels in
\* descending price order; a buy's quantity is min(quantity at the level,
\* limit - running position) and a sell's is min(quantity at the level,
\* running position + limit), the running position being the snapshot
\* position plus the signed quantities of the orders accepted before it in
\* the tick; every buy quantity is > 0 and every sell quantity is < 0.
C15_SweepScanRule ==
    (variant = "sweep" /\ outcome = "ok") =>
        \A e \in Listed :
            e.symbol \in DOMAIN result =>
            LET os    == result[e.symbol]
                asks  == e.depth.sell_orders
                bids  == e.depth.buy_orders
                limit == POSITION_LIMITS[e.symbol]
                running(i) == PositionGet(state.position, e.symbol)
                                  + OrderSums(SubSeq(os, 1, i - 1)).qty
            IN  \E k \in 0..Len(os) :
                    /\ \A i \in 1..k :
                           /\ os[i].quantity > 0
                           /\ os[i].price \in DOMAIN asks
                           /\ os[i].quantity =
                                  Min(-asks[os[i].price], limit - running(i))
                           /\ i > 1 => os[i - 1].price < os[i].price
                    /\ \A i \in (k + 1)..Len(os) :
                           /\ os[i].quantity < 0
                           /\ os[i].price \in DOMAIN bids
                           /\ -os[i].quantity =
                                  Min(bids[os[i].price], running(i) + limit)
                           /\ i > k + 1 => os[i - 1].price > os[i].price

\* position 19, limit 20, 5 on offer at the level that qualifies: a buy of 1
C15_Witness ==
    /\ variant = "sweep" /\ outcome = "ok"
    /\ \E e \in Listed :
           /\ e.symbol \in DOMAIN result
           /\ PositionGet(state.position, e.symbol) = 19
           /\ Len(result[e.symbol]) >= 1
           /\ result[e.symbol][1].quantity = 1
           /\ e.depth.sell_orders[result[e.symbol][1].price] = -5

\* the last n items of a sequence
LastN(items, n) == SubSeq(items, Len(items) - n + 1, Len(items))

\* C16: while every sweep tick gets the token the tick before returned, the
\* price window of each product in the returned token holds at most
\* HISTORY_LENGTH prices, keeps that capacity through encode and decode, and
\* is the last min(HISTORY_LENGTH, total) market-trade prices read for the
\* product since the fresh start, in arrival order.
C16_WindowIsLastPrices ==
    (variant = "sweep" /\ outcome = "ok" /\ chain >= 1) =>
        LET encoded == trader_data.body.items
        IN  /\ DOMAIN seen = DOMAIN encoded
            /\ \A p \in DOMAIN encoded :
                   LET window == encoded[p].recent_prices.py_reduce
                   IN  /\ window[2][2] = HISTORY_LENGTH
                       /\ Len(window[3]) <= HISTORY_LENGTH
                       /\ window[3] =
                              LastN(seen[p], Min(HISTORY_LENGTH, Len(seen[p])))

\* a tick that came with a decoded window and pushed the oldest prices out
C16_Witness ==
    /\ variant = "sweep" /\ outcome = "ok" /\ chain >= 2
    /\ \E p \in DOMAIN seen :
           /\ Len(seen[p]) > HISTORY_LENGTH
           /\ decode(state.traderData).memory[p].recent_prices.items # <<>>
           /\ TradesGet(state.market_trades, p) # <<>>

\* the lines the last run of a Logger script printed: one status line for
\* every product whose book has both sides
TickLines ==
    Concat([i \in 1..Len(state.order_depths) |->
               FixedLog(state.order_depths[i].symbol, state.order_depths[i].depth,
                        PositionGet(state.position, state.order_depths[i].symbol))])

\* C17: every run of a Logger script ends with Logger.flush and leaves the
\* log buffer empty, and the log text of its record is, before truncation,
\* the lines printed during that tick and nothing from the ticks before.
C17_LogsOfThisTickOnly ==
    (variant \in {"fixed", "band"} /\ outcome = "ok") =>
        /\ logs = <<>>
        /\ flushed.logs = truncate(TickLines, flushed.max_item_length)

\* a tick in which every product is skipped for a missing book side
C17_Witness ==
    /\ variant \in {"fixed", "band"} /\ outcome = "ok"
    /\ state.order_depths # <<>>
    /\ \A e \in Listed : ~TwoSided(e.depth)
    /\ flushed.base_length > 0
    /\ flushed.logs = <<>>

\* the distances of a tier's price bands from the reference price 10000
BandDistances(tier) ==
    {Abs(10000 - tier.buy_levels[i]) : i \in 1..Len(tier.buy_levels)}
        \cup {Abs(tier.sell_levels[i] - 10000) : i \in 1..Len(tier.sell_levels)}

\* C18: a banding tick before the horizon with RAINFOREST_RESIN at position
\* 0 emits, for a spread >= 10, two buys and two sells of 8 at the widest
\* bands; for 6 <= spread < 10, two buys and two sells of 5 at closer bands;
\* for a spread < 6, one buy and one sell of 3 at the closest bands.  Band
\* distance and size never decrease as the spread grows, and the buys
\* together never exceed the position limit.
C18_TierBySpread ==
    (variant = "band" /\ outcome = "ok" /\ state.timestamp <= HORIZON) =>
        /\ \A e \in Listed :
            (/\ e.symbol = RESIN /\ TwoSided(e.depth)
             /\ PositionGet(state.position, RESIN) = 0) =>
                LET spread == SetMin(DOMAIN e.depth.sell_orders)
                                  - SetMax(DOMAIN e.depth.buy_orders)
                IN  /\ RESIN \in DOMAIN result
                    /\ result[RESIN] =
                           IF spread >= 10
                           THEN <<Order(RESIN, 9995, 8), Order(RESIN, 9996, 8),
                                  Order(RESIN, 10004, -8), Order(RESIN, 10005, -8)>>
                           ELSE IF spread >= 6
                           THEN <<Order(RESIN, 9996, 5), Order(RESIN, 9997, 5),
                                  Order(RESIN, 10003, -5), Order(RESIN, 10004, -5)>>
                           ELSE <<Order(RESIN, 9998, 3), Order(RESIN, 10002, -3)>>
                    /\ SeqSum([i \in 1..Len(result[RESIN]) |->
                                  Max(0, result[RESIN][i].quantity)])
                           <= POSITION_LIMIT
        /\ \A s1 \in 0..21 : \A s2 \in s1..21 :
               /\ BandTier(s1).size <= BandTier(s2).size
               /\ SetMin(BandDistances(BandTier(s1)))
                      <= SetMin(BandDistances(BandTier(s2)))
               /\ SetMax(BandDistances(BandTier(s1)))
                      <= SetMax(BandDistances(BandTier(s2)))

\* the wide tier: bid 9990, ask 10010 (spread 20), position 0, four orders
C18_Witness ==
    /\ variant = "band" /\ outcome = "ok" /\ state.timestamp <= HORIZON
    /\ PositionGet(state.position, RESIN) = 0
    /\ \E e \in Listed :
           /\ e.symbol = RESIN
           /\ e.depth = BookWide
    /\ RESIN \in DOMAIN result
    /\ Len(result[RESIN]) = 4

\* the quantities of the buys, and of the sells, among a list of orders
BuyTotal(orders) ==
    SeqSum([i \in 1..Len(orders) |-> Max(0, orders[i].quantity)])
SellTotal(orders) ==
    SeqSum([i \in 1..Len(orders) |-> Max(0, -orders[i].quantity)])

\* C19: in a sweep tick and in a banding tick, for every product whose
\* snapshot position p lies in [-20, 20], the buys emitted for it add up to
\* at most 20 - p and the sells to at most 20 + p.
C19_EachSideWithinLimit ==
    (variant \in {"sweep", "band"} /\ outcome = "ok") =>
        \A e \in Listed :
            LET p == PositionGet(state.position, e.symbol)
            IN  (e.symbol \in DOMAIN result /\ p >= -20 /\ p <= 20) =>
                    /\ BuyTotal(result[e.symbol]) <= 20 - p
                    /\ SellTotal(result[e.symbol]) <= 20 + p

=============================================================================
